---- MODULE Spec2Model ----
(***************************************************************************)
(* Model of the unique_contact provider function                           *)
(* (internal/provider/unique_contact_function.go, UniqueContactFunction).  *)
(* Run groups the rows of a decoded CSV table by a field and merges each   *)
(* group into labels, variables and destinations.                          *)
(*                                                                         *)
(* Strings are modelled as sequences of one-character strings, so that     *)
(* trimming is computed and not assumed.  A Go map[string]string is a      *)
(* function whose domain is the set of keys present; a Go slice is a       *)
(* sequence; a *sync.Mutex is the identity of its allocation plus          *)
(* membership in the set of locked mutexes.                                *)
(***************************************************************************)
EXTENDS Naturals, Sequences, FiniteSets

\* ------------------------------------------------------------------ bounds

\* Longest CSV list handed to the function.
MaxRecords == 3

\* ------------------------------------------------------------------ inputs

\* The rows the CSV list is drawn from.  They cover: two rows of one group
\* that share a destination and differ in code, a name that needs trimming,
\* a value that occurs under two different fields, a blank name, a row with
\* no name field and a row with no destination field.
Rows ==
    { [name |-> <<"a">>, code |-> <<"1">>, destination |-> <<"x">>],
      [name |-> <<" ", "a", " ">>, code |-> <<"2">>, destination |-> <<"x">>],
      [name |-> <<"a">>, code |-> <<"x">>, destination |-> <<"1">>],
      [name |-> <<"b">>, code |-> <<"1">>],
      [name |-> <<" ">>, code |-> <<"2">>, destination |-> <<"y">>],
      [code |-> <<"2">>, destination |-> <<"y">>] }

\* The field lists label_fields and variable_fields are drawn from: empty,
\* one field, two fields, a repeated field, a field no row has.
LabelFieldLists ==
    { <<>>, <<"code">>, <<"code", "destination">>, <<"destination", "code">> }

VariableFieldLists ==
    { <<>>, <<"code">>, <<"code", "code">>, <<"ghost", "destination">> }

RECURSIVE SeqsUpTo(_, _)
\* All sequences over S of length at most n.
SeqsUpTo(S, n) ==
    IF n = 0 THEN { <<>> }
    ELSE LET shorter == SeqsUpTo(S, n - 1)
         IN  shorter \cup { Append(s, x) : s \in shorter, x \in S }

\* The well-formed argument tuples (UniqueContactModel).
Arguments ==
    [ CSV : SeqsUpTo(Rows, MaxRecords),
      GroupByField : {"name"},
      CodeField : {"code"},
      DestinationField : {"destination"},
      Labels : LabelFieldLists,
      Variables : VariableFieldLists ]

\* ------------------------------------------------------------------- state

VARIABLES
    argsNull,        \* input: some argument is null (rejected by Arguments.Get)
    data,            \* input: the arguments, UniqueContactModel
    pc,              \* position in Run
    elements,        \* local: the decoded CSV list
    labelFields,     \* local
    variableFields,  \* local
    i,               \* loop index into elements (1-based)
    name,            \* local: trimmed group key of the current record
    c,               \* local: the contact being built for the current record
    seen,            \* local: map name -> contact accumulator
    locked,          \* the mutexes currently held
    lockLog,         \* history of mutex operations, in order
    diags,           \* tflog.Warn calls, in order
    contacts,        \* local: map name -> summary, built by the finalize loop
    result,          \* resp.Result
    respError,       \* resp.Error is set
    panicked         \* the run ended in a Go runtime failure

vars == << argsNull, data, pc, elements, labelFields, variableFields, i, name,
           c, seen, locked, lockLog, diags, contacts, result, respError,
           panicked >>

\* --------------------------------------------------------- pure operations

\* The empty Go map / empty Go slice.
Empty == <<>>

\* v[f] on a Go map[string]string: the zero value "" when f is not a key.
Get(v, f) == IF f \in DOMAIN v THEN v[f] ELSE <<>>

IsSpace(ch) == ch = " "

RECURSIVE TrimLeft(_)
TrimLeft(s) ==
    IF s # <<>> /\ IsSpace(Head(s)) THEN TrimLeft(Tail(s)) ELSE s

RECURSIVE TrimRight(_)
TrimRight(s) ==
    IF s # <<>> /\ IsSpace(s[Len(s)]) THEN TrimRight(SubSeq(s, 1, Len(s) - 1))
    ELSE s

\* stripSpaces: the group key with surrounding whitespace removed.
stripSpaces(s) == TrimRight(TrimLeft(s))

\* listToLabels: a list of strings as a Go []string, with no error for a
\* well-formed list.
listToLabels(l) == [err |-> FALSE, labels |-> l]

\* m[k] = val on a Go map.
MapSet(m, k, val) ==
    [x \in DOMAIN m \cup {k} |-> IF x = k THEN val ELSE m[x]]

\* Faulty variant of GroupName: the group-by value is used as it is read.
GroupNameRaw(v) == Get(v, data.GroupByField)

\* name := stripSpaces(v[data.GroupByField.ValueString()])
GroupName(v) == stripSpaces(Get(v, data.GroupByField))

\* Faulty variant of WriteVariable: the first value written for a field is kept.
WriteVariableKeepFirst(vs, f, val) ==
    IF f \in DOMAIN vs THEN vs ELSE MapSet(vs, f, val)

\* Faulty variant of WriteVariable: an empty value is not written.
WriteVariableSkipEmpty(vs, f, val) ==
    IF val = <<>> THEN vs ELSE MapSet(vs, f, val)

\* c.variables[field] = v[field]
WriteVariable(vs, f, val) == MapSet(vs, f, val)

\* The accumulator created on the first sight of a name.
NewContact(mu) ==
    [mu |-> mu, destinations |-> <<>>, labels |-> <<>>, variables |-> Empty]

\* The label values of one record, in label_fields order.
RowLabels(v, fields) == [k \in 1..Len(fields) |-> Get(v, fields[k])]

\* The destination of one record.
RowDestination(v) ==
    [code |-> Get(v, data.CodeField),
     destination |-> Get(v, data.DestinationField)]

\* Faulty variant of WarnsOverwrite: the warning is logged only when the value changes.
WarnsOverwriteIfDiffers(vs, f, val) == f \in DOMAIN vs /\ vs[f] # val

\* Whether writing field f into the variables map vs logs the warning
\* "variable already exists, overwriting".
WarnsOverwrite(vs, f, val) == f \in DOMAIN vs

RECURSIVE SetVariables(_, _, _, _)
\* The loop over variableFields from position k on: the variables map and the
\* warnings logged, as [variables, warned].
SetVariables(vs, v, fields, k) ==
    IF k > Len(fields) THEN [variables |-> vs, warned |-> <<>>]
    ELSE LET f    == fields[k]
             rest == SetVariables(WriteVariable(vs, f, Get(v, f)), v, fields, k + 1)
         IN  [variables |-> rest.variables,
              warned |-> IF WarnsOverwrite(vs, f, Get(v, f))
                         THEN <<[msg |-> "overwrite", key |-> f]>> \o rest.warned
                         ELSE rest.warned]

RECURSIVE UniqueFrom(_, _, _)
\* The loop of UniqueSliceElements from position k on, with the set of
\* elements seen so far.
UniqueFrom(s, k, seenElems) ==
    IF k > Len(s) THEN <<>>
    ELSE IF s[k] \notin seenElems
         THEN <<s[k]>> \o UniqueFrom(s, k + 1, seenElems \cup {s[k]})
         ELSE UniqueFrom(s, k + 1, seenElems)

UniqueSliceElements(inputSlice) == UniqueFrom(inputSlice, 1, {})

RECURSIVE LabelsFrom(_, _, _)
\* The label loop of the finalize pass from position k on.
LabelsFrom(labels, k, seenLabels) ==
    IF k > Len(labels) THEN <<>>
    ELSE IF labels[k] \notin seenLabels
         THEN <<labels[k]>> \o LabelsFrom(labels, k + 1, seenLabels \cup {labels[k]})
         ELSE LabelsFrom(labels, k + 1, seenLabels \cup {labels[k]})

UniqueLabels(labels) == LabelsFrom(labels, 1, {})

\* Faulty variant of DestinationKey: a destination is remembered by code and
\* destination together.
DestinationKeyPair(dest) == <<dest.code, dest.destination>>

\* The key the finalize pass remembers a destination by.
DestinationKey(dest) == dest.destination

RECURSIVE DestinationsFrom(_, _, _)
\* The destination loop of the finalize pass from position k on.
DestinationsFrom(dests, k, seenDestination) ==
    IF k > Len(dests) THEN <<>>
    ELSE IF DestinationKey(dests[k]) \notin seenDestination
         THEN <<dests[k]>> \o
              DestinationsFrom(dests, k + 1,
                               seenDestination \cup {DestinationKey(dests[k])})
         ELSE DestinationsFrom(dests, k + 1,
                               seenDestination \cup {DestinationKey(dests[k])})

UniqueDestinations(dests) == DestinationsFrom(dests, 1, {})

\* Faulty variant of FinalizeContact: the labels are passed on as accumulated.
FinalizeContactRawLabels(acc) ==
    [destinations |-> UniqueDestinations(acc.destinations),
     labels |-> acc.labels,
     variables |-> acc.variables]

\* One iteration of the finalize loop: the summary of one accumulator.
FinalizeContact(acc) ==
    [destinations |-> UniqueDestinations(acc.destinations),
     labels |-> UniqueSliceElements(UniqueLabels(acc.labels)),
     variables |-> acc.variables]

\* ------------------------------------------------------------------ actions

NoContact == [mu |-> 0, destinations |-> <<>>, labels |-> <<>>, variables |-> Empty]

Init ==
    /\ \/ argsNull = FALSE /\ data \in Arguments
       \/ argsNull = TRUE /\ data = [CSV |-> <<>>, GroupByField |-> "name",
                                     CodeField |-> "code",
                                     DestinationField |-> "destination",
                                     Labels |-> <<>>, Variables |-> <<>>]
    /\ pc = "read"
    /\ elements = <<>>
    /\ labelFields = <<>>
    /\ variableFields = <<>>
    /\ i = 1
    /\ name = <<>>
    /\ c = NoContact
    /\ seen = Empty
    /\ locked = {}
    /\ lockLog = <<>>
    /\ diags = <<>>
    /\ contacts = Empty
    /\ result = Empty
    /\ respError = FALSE
    /\ panicked = FALSE

\* Lines 103-129: read the arguments; a null argument ends the run with
\* resp.Error set.
ReadArguments ==
    /\ pc = "read"
    /\ IF argsNull \/ listToLabels(data.Labels).err
                   \/ listToLabels(data.Variables).err
       THEN /\ respError' = TRUE
            /\ pc' = "done"
            /\ UNCHANGED << elements, labelFields, variableFields >>
       ELSE /\ elements' = data.CSV
            /\ labelFields' = listToLabels(data.Labels).labels
            /\ variableFields' = listToLabels(data.Variables).labels
            /\ pc' = "loop"
            /\ UNCHANGED respError
    /\ UNCHANGED << argsNull, data, i, name, c, seen, locked, lockLog, diags,
                    contacts, result, panicked >>

\* Lines 147-153: a record whose trimmed name is empty is logged and skipped.
SkipEmptyName ==
    /\ pc = "loop"
    /\ i <= Len(elements)
    /\ GroupName(elements[i]) = <<>>
    /\ diags' = Append(diags, [msg |-> "empty", i |-> i])
    /\ i' = i + 1
    /\ UNCHANGED << argsNull, data, pc, elements, labelFields, variableFields,
                    name, c, seen, locked, lockLog, contacts, result,
                    respError, panicked >>

\* Faulty variant of GetOrCreate: a new accumulator starts with the labels
\* of an accumulator that already exists (one slice reused for all groups).
GetOrCreateSharedLabels ==
    /\ pc = "loop"
    /\ i <= Len(elements)
    /\ LET n == GroupName(elements[i])
       IN  /\ n # <<>>
           /\ name' = n
           /\ seen' = IF n \in DOMAIN seen THEN seen
                      ELSE IF DOMAIN seen = {} THEN MapSet(seen, n, NewContact(i))
                      ELSE MapSet(seen, n,
                             [NewContact(i) EXCEPT !.labels =
                                seen[CHOOSE m \in DOMAIN seen : TRUE].labels])
    /\ pc' = "lock"
    /\ UNCHANGED << argsNull, data, elements, labelFields, variableFields, i,
                    c, locked, lockLog, diags, contacts, result, respError,
                    panicked >>

\* Lines 147-162: the name of the record, and its accumulator created on
\* first sight with a mutex of its own.
GetOrCreate ==
    /\ pc = "loop"
    /\ i <= Len(elements)
    /\ LET n == GroupName(elements[i])
       IN  /\ n # <<>>
           /\ name' = n
           /\ seen' = IF n \in DOMAIN seen THEN seen
                      ELSE MapSet(seen, n, NewContact(i))
    /\ pc' = "lock"
    /\ UNCHANGED << argsNull, data, elements, labelFields, variableFields, i,
                    c, locked, lockLog, diags, contacts, result, respError,
                    panicked >>

\* Line 164: seen[name].mu.Lock(); it waits while the mutex is held.
Lock ==
    /\ pc = "lock"
    /\ seen[name].mu \notin locked
    /\ locked' = locked \cup {seen[name].mu}
    /\ lockLog' = Append(lockLog, [op |-> "lock", mu |-> seen[name].mu, i |-> i])
    /\ pc' = "build"
    /\ UNCHANGED << argsNull, data, elements, labelFields, variableFields, i,
                    name, c, seen, diags, contacts, result, respError,
                    panicked >>

\* Faulty variant of BuildContact: c gets a mutex of its own instead of the
\* accumulator's.
BuildContactFreshMutex ==
    /\ pc = "build"
    /\ LET v  == elements[i]
           sv == SetVariables(seen[name].variables, v, variableFields, 1)
       IN  /\ c' = [mu |-> Len(elements) + i,
                    destinations |-> Append(seen[name].destinations,
                                            RowDestination(v)),
                    labels |-> seen[name].labels \o RowLabels(v, labelFields),
                    variables |-> sv.variables]
           /\ seen' = [seen EXCEPT ![name].variables = sv.variables]
           /\ diags' = diags \o sv.warned
    /\ pc' = "store"
    /\ UNCHANGED << argsNull, data, elements, labelFields, variableFields, i,
                    name, locked, lockLog, contacts, result, respError,
                    panicked >>

\* Lines 166-189: build the contact c of this record.  c.variables is the
\* map of seen[name] itself, so the writes of the variable loop show in
\* seen[name] at once.
BuildContact ==
    /\ pc = "build"
    /\ LET v  == elements[i]
           sv == SetVariables(seen[name].variables, v, variableFields, 1)
       IN  /\ c' = [mu |-> seen[name].mu,
                    destinations |-> Append(seen[name].destinations,
                                            RowDestination(v)),
                    labels |-> seen[name].labels \o RowLabels(v, labelFields),
                    variables |-> sv.variables]
           /\ seen' = [seen EXCEPT ![name].variables = sv.variables]
           /\ diags' = diags \o sv.warned
    /\ pc' = "store"
    /\ UNCHANGED << argsNull, data, elements, labelFields, variableFields, i,
                    name, locked, lockLog, contacts, result, respError,
                    panicked >>

\* Line 191: seen[name] = c.
StoreContact ==
    /\ pc = "store"
    /\ seen' = [seen EXCEPT ![name] = c]
    /\ pc' = "unlock"
    /\ UNCHANGED << argsNull, data, elements, labelFields, variableFields, i,
                    name, c, locked, lockLog, diags, contacts, result,
                    respError, panicked >>

\* Faulty variant of Unlock: the mutex is not released.
UnlockForgotten ==
    /\ pc = "unlock"
    /\ i' = i + 1
    /\ name' = <<>>
    /\ c' = NoContact
    /\ pc' = "loop"
    /\ UNCHANGED << argsNull, data, elements, labelFields, variableFields,
                    seen, locked, lockLog, diags, contacts, result, respError,
                    panicked >>

\* Lines 192-193: seen[name].mu.Unlock() and on to the next record.
\* Unlocking a mutex that is not locked is a fatal runtime error.
Unlock ==
    /\ pc = "unlock"
    /\ IF seen[name].mu \in locked
       THEN /\ locked' = locked \ {seen[name].mu}
            /\ lockLog' = Append(lockLog,
                                 [op |-> "unlock", mu |-> seen[name].mu, i |-> i])
            /\ i' = i + 1
            /\ name' = <<>>
            /\ c' = NoContact
            /\ pc' = "loop"
            /\ UNCHANGED panicked
       ELSE /\ panicked' = TRUE
            /\ pc' = "done"
            /\ UNCHANGED << locked, lockLog, i, name, c >>
    /\ UNCHANGED << argsNull, data, elements, labelFields, variableFields,
                    seen, diags, contacts, result, respError >>

\* Faulty variant of Finalize: the deduplicated labels and destinations are
\* written back into the accumulators.
FinalizeInPlace ==
    /\ pc = "loop"
    /\ i > Len(elements)
    /\ contacts' = [n \in DOMAIN seen |-> FinalizeContact(seen[n])]
    /\ seen' = [n \in DOMAIN seen |->
                 [seen[n] EXCEPT
                    !.labels = FinalizeContact(seen[n]).labels,
                    !.destinations = FinalizeContact(seen[n]).destinations]]
    /\ pc' = "set"
    /\ UNCHANGED << argsNull, data, elements, labelFields, variableFields, i,
                    name, c, locked, lockLog, diags, result, respError,
                    panicked >>

\* Lines 195-234: the finalize loop over seen.
Finalize ==
    /\ pc = "loop"
    /\ i > Len(elements)
    /\ contacts' = [n \in DOMAIN seen |-> FinalizeContact(seen[n])]
    /\ pc' = "set"
    /\ UNCHANGED << argsNull, data, elements, labelFields, variableFields, i,
                    name, c, seen, locked, lockLog, diags, result, respError,
                    panicked >>

\* Line 253: resp.Result.Set.
SetResult ==
    /\ pc = "set"
    /\ result' = contacts
    /\ pc' = "done"
    /\ UNCHANGED << argsNull, data, elements, labelFields, variableFields, i,
                    name, c, seen, locked, lockLog, diags, contacts,
                    respError, panicked >>

Next ==
    \/ ReadArguments
    \/ SkipEmptyName
    \/ GetOrCreate
    \/ Lock
    \/ BuildContact
    \/ StoreContact
    \/ Unlock
    \/ Finalize
    \/ SetResult

Spec == Init /\ [][Next]_vars

\* The run is one sequential call: it takes its next step whenever it has one.
FairSpec == Spec /\ WF_vars(Next)

\* -------------------------------------------------- the run as a function

RECURSIVE GroupFold(_, _, _)
\* Lines 146-193 as a fold: the accumulators after the records from position
\* k on have been merged into acc.
GroupFold(recs, k, acc) ==
    IF k > Len(recs) THEN acc
    ELSE LET v == recs[k]
             n == GroupName(v)
         IN  IF n = <<>> THEN GroupFold(recs, k + 1, acc)
             ELSE LET cur == IF n \in DOMAIN acc THEN acc[n] ELSE NewContact(k)
                      new == [mu |-> cur.mu,
                              destinations |-> Append(cur.destinations,
                                                      RowDestination(v)),
                              labels |-> cur.labels \o RowLabels(v, data.Labels),
                              variables |-> SetVariables(cur.variables, v,
                                                         data.Variables, 1).variables]
                  IN  GroupFold(recs, k + 1, MapSet(acc, n, new))

\* Lines 146-234: the summaries Run computes for the records recs.
Summaries(recs) ==
    LET acc == GroupFold(recs, 1, Empty)
    IN  [n \in DOMAIN acc |-> FinalizeContact(acc[n])]

\* ------------------------------------------------- vocabulary of the claims

\* The run returned a result.
Returned == pc = "done" /\ ~respError /\ ~panicked

Range(s) == { s[k] : k \in DOMAIN s }

\* The group key of input record j: its group-by value without the
\* surrounding whitespace.
KeyOf(j) == stripSpaces(Get(data.CSV[j], data.GroupByField))

\* The input positions of the records of group g.
Idx(g) == { j \in 1..Len(data.CSV) : KeyOf(j) = g }

\* The group keys of the input.
Groups == { KeyOf(j) : j \in 1..Len(data.CSV) } \ { <<>> }

Min(S) == CHOOSE x \in S : \A y \in S : x <= y

Max(S) == CHOOSE x \in S : \A y \in S : y <= x

RECURSIVE Ascending(_)
\* The numbers of S in ascending order.
Ascending(S) ==
    IF S = {} THEN <<>> ELSE <<Min(S)>> \o Ascending(S \ {Min(S)})

\* The (code, destination) pair of input record j.
PairOf(j) ==
    [code |-> Get(data.CSV[j], data.CodeField),
     destination |-> Get(data.CSV[j], data.DestinationField)]

\* The records of group g that are the first of the group with their
\* destination value.
FirstPerDestination(g) ==
    { j \in Idx(g) :
        \A k \in Idx(g) : k < j => PairOf(k).destination # PairOf(j).destination }

\* The pairs of those records, in input order.
ExpectedDestinations(g) ==
    LET ord == Ascending(FirstPerDestination(g))
    IN  [p \in 1..Len(ord) |-> PairOf(ord[p])]

RECURSIVE FlatLabelsOf(_)
\* The label values of the records at positions ord, record after record,
\* each in label_fields order.
FlatLabelsOf(ord) ==
    IF ord = <<>> THEN <<>>
    ELSE [q \in 1..Len(data.Labels) |-> Get(data.CSV[Head(ord)], data.Labels[q])]
         \o FlatLabelsOf(Tail(ord))

FlatLabels(g) == FlatLabelsOf(Ascending(Idx(g)))

\* The first position of x in s.
FirstAt(s, x) == Min({ k \in DOMAIN s : s[k] = x })

\* s is the stable unique-filter of flat.
IsStableUnique(s, flat) ==
    /\ Range(s) = Range(flat)
    /\ \A p, q \in DOMAIN s : p < q => s[p] # s[q]
    /\ \A p, q \in DOMAIN s : p < q => FirstAt(flat, s[p]) < FirstAt(flat, s[q])

\* ------------------------------------------------------------------ claims

\* C1: for every group of the result, destinations are the (code,
\* destination) pairs of the group's rows that are the first with their
\* destination value, in input order; no two entries share a destination
\* value, so a later row with a seen destination and another code adds nothing.
C1_DestinationsFirstPerValue ==
    Returned =>
        \A g \in DOMAIN result :
            /\ result[g].destinations = ExpectedDestinations(g)
            /\ \A p, q \in DOMAIN result[g].destinations :
                   p # q => result[g].destinations[p].destination
                            # result[g].destinations[q].destination

\* C1 witness: a returned group with two rows of one destination and
\* different codes, of which the later one is dropped.
C1_Witness ==
    /\ Returned
    /\ \E g \in DOMAIN result :
         \E j, k \in Idx(g) :
            /\ j < k
            /\ PairOf(j).destination = PairOf(k).destination
            /\ PairOf(j).code # PairOf(k).code
            /\ \A p \in DOMAIN result[g].destinations :
                   result[g].destinations[p].code # PairOf(k).code

\* C2: for every group, labels is the stable unique-filter of the label
\* values of the group's records, record after record in input order and
\* field after field in label_fields order, a missing field reading as "".
C2_LabelsStableUnique ==
    Returned =>
        \A g \in DOMAIN result : IsStableUnique(result[g].labels, FlatLabels(g))

\* C2 witness: a returned group whose rows have different label tuples that
\* share a value, which is kept once.
C2_Witness ==
    /\ Returned
    /\ Len(data.Labels) = 2
    /\ \E g \in DOMAIN result :
         /\ Len(result[g].labels) >= 3
         /\ Len(result[g].labels) < Len(FlatLabels(g))
         /\ \E j, k \in Idx(g) :
              /\ FlatLabelsOf(<<j>>) # FlatLabelsOf(<<k>>)
              /\ Range(FlatLabelsOf(<<j>>)) \cap Range(FlatLabelsOf(<<k>>)) # {}

\* C3: for every group and every field f of variable_fields, variables[f] is
\* the value of f in the last input record of the group.
C3_LastWriteWins ==
    Returned =>
        \A g \in DOMAIN result :
            \A f \in Range(data.Variables) :
                /\ f \in DOMAIN result[g].variables
                /\ result[g].variables[f] = Get(data.CSV[Max(Idx(g))], f)

\* C3 witness: a returned group with two rows that differ in a variable field.
C3_Witness ==
    /\ Returned
    /\ \E g \in DOMAIN result :
         \E f \in Range(data.Variables) :
            \E j, k \in Idx(g) :
               /\ j < k
               /\ k = Max(Idx(g))
               /\ Get(data.CSV[j], f) # Get(data.CSV[k], f)
               /\ result[g].variables[f] = Get(data.CSV[k], f)

\* A step that handles a record whose trimmed group-by value is empty.
HandlesEmptyKey ==
    /\ pc = "loop"
    /\ i <= Len(data.CSV)
    /\ KeyOf(i) = <<>>

\* C4: the keys of the result are exactly the distinct non-empty trimmed
\* group-by values of the input, and handling a record whose group-by value
\* is blank or missing leaves every accumulator as it was and takes no lock.
C4_KeysAreTrimmedNames ==
    /\ [](Returned => DOMAIN result = Groups)
    /\ [][HandlesEmptyKey => seen' = seen /\ locked' = locked /\ pc' = "loop"]_vars

\* C4 witness: a returned run over a blank name, a missing name and a name
\* that needed trimming.
C4_Witness ==
    /\ Returned
    /\ DOMAIN result # {}
    /\ \E j, k, l \in 1..Len(data.CSV) :
         /\ data.GroupByField \notin DOMAIN data.CSV[j]
         /\ data.GroupByField \in DOMAIN data.CSV[k]
         /\ data.CSV[k][data.GroupByField] # <<>>
         /\ KeyOf(k) = <<>>
         /\ KeyOf(l) # <<>>
         /\ KeyOf(l) # data.CSV[l][data.GroupByField]

\* The names of variable_fields that some record of group g has as a field.
PresentVariableFields(g) ==
    { f \in Range(data.Variables) : \E j \in Idx(g) : f \in DOMAIN data.CSV[j] }

\* C5 as stated: the keys of a group's variables are exactly the names of
\* variable_fields present in at least one record of the group.
C5_VariablesOnlyPresentFields ==
    Returned =>
        \A g \in DOMAIN result :
            DOMAIN result[g].variables = PresentVariableFields(g)

\* C5 amended: the keys of a group's variables are exactly the names of
\* variable_fields; a name that no record of the group has maps to "".
C5_VariablesAllListedFields ==
    Returned =>
        \A g \in DOMAIN result :
            /\ DOMAIN result[g].variables = Range(data.Variables)
            /\ \A f \in Range(data.Variables) \ PresentVariableFields(g) :
                   result[g].variables[f] = <<>>

\* C5 witness: a returned group with a listed variable field that none of
\* its records has.
C5_Witness ==
    /\ Returned
    /\ \E g \in DOMAIN result :
         /\ Range(data.Variables) \ PresentVariableFields(g) # {}
         /\ PresentVariableFields(g) # {}

\* A step that builds the contact of the current record (lines 166-189).
BuildStep == pc = "build" /\ pc' = "store"

\* The number of overwrite warnings for field f that the step logs.
NewOverwriteWarnings(f) ==
    Cardinality({ p \in (Len(diags) + 1)..Len(diags') :
                    diags'[p] = [msg |-> "overwrite", key |-> f] })

\* The number of times f is listed in variable_fields.
Occurrences(f) ==
    Cardinality({ k \in DOMAIN data.Variables : data.Variables[k] = f })

\* C6 as stated: handling a record logs an overwrite warning for f exactly
\* when the group's variables hold a value for f from a prior record and
\* that value differs from the record's.
C6_WarnsOnlyWhenValueDiffers ==
    [][BuildStep =>
         \A f \in Range(data.Variables) :
            (NewOverwriteWarnings(f) > 0)
              <=> /\ f \in DOMAIN seen[name].variables
                  /\ seen[name].variables[f] # Get(data.CSV[i], f)]_vars

\* C6 amended: every write of f that finds f in the group's variables logs
\* one overwrite warning, whatever the values: with f held from a prior
\* record every listed occurrence of f warns, otherwise every occurrence but
\* the first; no other step logs an overwrite warning.
C6_WarnsWheneverKeyExists ==
    [][/\ BuildStep =>
            \A f \in Range(data.Variables) :
               NewOverwriteWarnings(f) =
                  IF f \in DOMAIN seen[name].variables
                  THEN Occurrences(f) ELSE Occurrences(f) - 1
       /\ ~BuildStep =>
            \A f \in Range(data.Variables) : NewOverwriteWarnings(f) = 0]_vars

\* C6 witness: the contact of a record has just been built, an earlier
\* record of its group holds the same value in a variable field listed once,
\* and the warning for that field is the last one logged.
C6_Witness ==
    /\ pc = "store"
    /\ \E f \in Range(data.Variables) :
         /\ Occurrences(f) = 1
         /\ diags # <<>>
         /\ diags[Len(diags)] = [msg |-> "overwrite", key |-> f]
         /\ \E j \in 1..(i - 1) :
              /\ KeyOf(j) = name
              /\ \A k \in (j + 1)..(i - 1) : KeyOf(k) # name
              /\ Get(data.CSV[j], f) = Get(data.CSV[i], f)

\* C7: the finalize pass leaves every accumulator as it was, and the
\* summaries are those the finalize pass yields on the accumulators as they
\* are after it, so a second pass yields the same summaries.
C7_FinalizePure ==
    /\ [][pc = "loop" /\ pc' = "set" => seen' = seen]_vars
    /\ [](pc = "set" \/ Returned =>
            contacts = [n \in DOMAIN seen |-> FinalizeContact(seen[n])])

\* C7 witness: the finalize pass has run over an accumulator with repeated
\* labels and repeated destinations.
C7_Witness ==
    /\ pc = "set"
    /\ \E n \in DOMAIN seen :
         /\ Len(contacts[n].labels) < Len(seen[n].labels)
         /\ Len(contacts[n].destinations) < Len(seen[n].destinations)

\* The input records of group g, in input order.
RecordsOf(g) ==
    LET ord == Ascending(Idx(g)) IN [p \in 1..Len(ord) |-> data.CSV[ord[p]]]

\* C8: the summary of a group is the summary Run computes for the group's
\* own records alone, in their input order: records of other groups and
\* skipped records around them change nothing.
C8_GroupIndependence ==
    Returned =>
        \A g \in DOMAIN result :
            /\ g \in DOMAIN Summaries(RecordsOf(g))
            /\ result[g] = Summaries(RecordsOf(g))[g]

\* C8 witness: a returned group whose records have a record of another
\* group between them.
C8_Witness ==
    /\ Returned
    /\ \E g \in DOMAIN result :
         \E j, k, l \in 1..Len(data.CSV) :
            /\ j < k /\ k < l
            /\ KeyOf(j) = g /\ KeyOf(l) = g
            /\ KeyOf(k) \in DOMAIN result \ {g}
            /\ DOMAIN result[g].variables # {}

\* C9: on well-formed arguments the run ends and returns a result: no
\* runtime failure, no error, anomalies only logged; the empty list yields
\* the empty map and no diagnostics.
C9_TotalNoError ==
    /\ [](~panicked /\ (respError => argsNull))
    /\ (~argsNull) ~> Returned
    /\ [](Returned /\ data.CSV = <<>> => DOMAIN result = {} /\ diags = <<>>)

\* C9 witness: a returned run that logged a skipped record and an overwrite
\* and read a field a record does not have.
C9_Witness ==
    /\ Returned
    /\ \E p, q \in DOMAIN diags :
         diags[p].msg = "empty" /\ diags[q].msg = "overwrite"
    /\ \E j \in 1..Len(data.CSV) :
         /\ KeyOf(j) # <<>>
         /\ data.DestinationField \notin DOMAIN data.CSV[j]

\* The positions of Run at which the current record's mutex is held.
Holding == pc \in {"build", "store", "unlock"}

\* The mutex of the group of input record j: created with the first record
\* of the group.
MutexOf(j) == Min(Idx(KeyOf(j)))

RECURSIVE LockLogUpTo(_)
\* The mutex operations of the first n input records: one lock and one
\* unlock per record with a non-empty key, none for a skipped record.
LockLogUpTo(n) ==
    IF n = 0 THEN <<>>
    ELSE LockLogUpTo(n - 1) \o
         (IF KeyOf(n) = <<>> THEN <<>>
          ELSE << [op |-> "lock", mu |-> MutexOf(n), i |-> n],
                  [op |-> "unlock", mu |-> MutexOf(n), i |-> n] >>)

\* C10: every record with a non-empty key locks its group's mutex once,
\* contributes while holding it and unlocks it before the next record; a
\* skipped record locks nothing; no mutex is held at the start of an
\* iteration or after the loop; Lock never finds its mutex held; an
\* accumulator keeps its mutex; accumulators change only under their mutex.
C10_LockDiscipline ==
    /\ [](/\ Holding => locked = {seen[name].mu}
          /\ ~Holding => locked = {}
          /\ pc = "lock" => seen[name].mu \notin locked
          /\ lockLog = LockLogUpTo(i - 1) \o
                (IF Holding
                 THEN << [op |-> "lock", mu |-> seen[name].mu, i |-> i] >>
                 ELSE <<>>))
    /\ [][\A n \in DOMAIN seen :
            /\ n \in DOMAIN seen'
            /\ seen'[n].mu = seen[n].mu
            /\ seen'[n] # seen[n] => seen[n].mu \in locked /\ n = name]_vars

\* C10 witness: the second record of a group is about to unlock the group's
\* mutex, after a skipped record.
C10_Witness ==
    /\ pc = "unlock"
    /\ locked = {seen[name].mu}
    /\ seen[name].mu < i
    /\ Len(seen[name].destinations) >= 2
    /\ \E j \in 1..(i - 1) : KeyOf(j) = <<>>

====
